---- MODULE Spec2Model ----
(***************************************************************************)
(* Model of the runc shim daemon: the task RPC service (service.rs), the   *)
(* container entity (container.rs), the signal dispatcher (signal.rs) and  *)
(* the exit-event consumer of the daemon bootstrap (main.rs).              *)
(*                                                                         *)
(* The registry is the single slot `container: RwLock<Option<Container>>`. *)
(* Every Container::new allocates a fresh object number, so that the       *)
(* identity of a container survives its removal from the registry.  The    *)
(* k-th RPC of a run executes in slot k; any number of them may be in      *)
(* flight together.                                                        *)
(*                                                                         *)
(* Spec is the task service with the dispatcher and the consumer, FairSpec *)
(* adds the scheduling of the tokio runtime. DaemonSpec is the exit latch  *)
(* (utils.rs) with the daemon bootstrap, LaunchSpec the launcher of        *)
(* main.rs. ContainerSpec is one Container whose methods several tasks     *)
(* call, and LockSpec the handlers of the service, both with every lock    *)
(* acquisition as a step of its own.                                       *)
(***************************************************************************)
EXTENDS Integers, Sequences, FiniteSets, TLC

\* ---------------------------------------------------------------- bounds
MaxCalls == 3      \* RPCs issued by the clients in one run
MaxProcs == 2      \* container processes the runtime starts in one run
MaxWaiters == 2    \* ExitSignal::wait calls in one run of the daemon
MaxSignals == 2    \* Shutdown RPCs that reach the end of TaskService::shutdown or fail
MaxCallers == 3    \* tasks that call the methods of one container together
MaxTasks == 2      \* RPC handlers and consumer turns that run together, at lock level

Slots   == 1..MaxCalls          \* the k-th RPC runs in slot k
Objs    == 1..MaxCalls          \* one Container::new per Create at most
Chans   == 1..MaxCalls          \* one wait channel per Wait at most
Pids    == 1..MaxProcs
Waiters == 1..MaxWaiters
Signalers == 1..MaxSignals
Callers == 1..MaxCallers
Tasks == 1..MaxTasks
Ids     == {"a", "b"}           \* the ids Start, Delete, Wait and Kill are called with
CreateIds == {"a"}              \* the ids Create is called with

\* ------------------------------------------------------ program constants
SIGINT  == 2
SIGQUIT == 3
SIGTERM == 15
SignalInputs == {0, 15, 32}               \* u32 values of KillRequest.signal
NormalCodes  == {3}                       \* exit statuses of a normal exit
FatalSignals == {9}                       \* signals a child is killed by

\* handle_signals is given one pid when the daemon starts, before any container
\* exists. Pids are numbered in the order the runtime creates processes: the
\* dispatcher watches the first of them.
WatchedPid == 1

\* enum Status, in declaration order
UNKNOWN == "UNKNOWN"
CREATED == "CREATED"
RUNNING == "RUNNING"
STOPPED == "STOPPED"
Rank(st) == CASE st = UNKNOWN -> 0 [] st = CREATED -> 1 [] st = RUNNING -> 2 [] st = STOPPED -> 3

NoTime == 0        \* exited_at = None

\* wait(2) statuses seen by the dispatcher
StillAlive    == [kind |-> "StillAlive", code |-> 0]
Exited(c)     == [kind |-> "Exited", code |-> c]
Signaled(n)   == [kind |-> "Signaled", code |-> n]
ExitStatuses  == {Exited(c) : c \in NormalCodes} \cup {Signaled(n) : n \in FatalSignals}

VARIABLES
    registry,       \* TaskService.container: 0 is None, else the object held
    readers,        \* RPC slots holding a read guard of the registry across an await
    nextObj,        \* next object number Container::new hands out
    oid,            \* Container.id
    status,         \* Container.status
    pid,            \* Container.pid
    exit_code,      \* Container.exit_code
    exited_at,      \* Container.exited_at
    wait_channels,  \* Container.wait_channels: senders, by channel number
    dropped,        \* objects that were destroyed
    nextChan,       \* next channel number mpsc::unbounded_channel hands out
    chanMsgs,       \* messages waiting in each channel
    chanTx,         \* whether the sender of each channel is alive
    chanSent,       \* history: successful sends on each channel
    rpc,            \* the RPC in each slot
    calls,          \* RPCs issued so far
    reply,          \* the response being written to the client, with its RPC
    proc,           \* process table: "none", "alive", "zombie", "reaped"
    wstat,          \* wait status of the exited process the dispatcher waits for
    lastKill,       \* <<pid, signal>>: the signal kill(2) is delivering
    sigchld,        \* a SIGCHLD is pending on the dispatcher's stream
    container_pid,  \* handle_signals' container_pid argument
    dpc,            \* dispatcher position: "select", "done", "failed"
    events,         \* the channel from the dispatcher to the consumer
    now,            \* wall clock
    exited,         \* ExitSignal.exited
    stopSnap,       \* history: <<exit_code, exited_at>> at the first STOPPED transition
    notify_waiters_calls, \* Notify: the number of notify_waiters calls so far
    waiter,         \* the ExitSignal::wait calls, by position in the loop
    signaler,       \* the Shutdown RPCs of the daemon model, by position
    daemon,         \* start_daemon: "serving", "stopped", "exit0", "failed"
    socket_file,    \* the socket file exists
    lpc,            \* launcher (fn start): the statement it is at, "exit" when it returned
    launch_id,      \* launcher: args.id
    socket_path,    \* launcher: socket_path
    uds,            \* the bound listener: "none", "launcher", "child" or "closed"
    stdout,         \* launcher: what has been written to stdout and flushed
    lcode,          \* launcher: exit code, -1 while it runs
    lfail,          \* launcher: the statement that failed
    client,         \* the client reading the launcher's stdout: "waiting", "read", "connected", "refused"
    th,             \* lock level: the tasks, each with the call it makes and where it is
    locks           \* lock level: each tokio RwLock with its holders and its FIFO of waiters

contVars == <<registry, oid, status, pid, exit_code, exited_at, wait_channels, dropped, nextObj,
              stopSnap>>
chanVars == <<nextChan, chanMsgs, chanTx, chanSent>>
procVars == <<proc, wstat, lastKill>>
dispVars == <<container_pid, dpc, events>>
rpcVars  == <<rpc, reply>>
vars == <<registry, readers, nextObj, oid, status, pid, exit_code, exited_at, wait_channels,
          dropped, nextChan, chanMsgs, chanTx, chanSent, rpc, calls, reply, proc, wstat,
          lastKill, sigchld, container_pid, dpc, events, now, exited, stopSnap,
          notify_waiters_calls, waiter, signaler, daemon, socket_file,
          lpc, launch_id, socket_path, uds, stdout, lcode, lfail, client, th, locks>>
\* the state of the task service, the containers, the dispatcher and the consumer
taskVars == <<registry, readers, nextObj, oid, status, pid, exit_code, exited_at, wait_channels,
              dropped, nextChan, chanMsgs, chanTx, chanSent, rpc, calls, reply, proc, wstat,
              lastKill, sigchld, container_pid, dpc, events, now, stopSnap>>
\* the tasks and the locks of the lock-level models
lockVars == <<th, locks>>
\* the state of the exit latch's waiters, of the daemon bootstrap and of the
\* launcher, and the lock-level state
bootVars == <<notify_waiters_calls, waiter, signaler, daemon, socket_file,
              lpc, launch_id, socket_path, uds, stdout, lcode, lfail, client, lockVars>>
\* the state of the launcher and of the client that started it
launchVars == <<lpc, launch_id, socket_path, uds, stdout, lcode, lfail, client>>

\* ----------------------------------------------------------------- casts
\* `as u32` of an i32 and `as i32` of a u32. Pids, exit codes and the signal
\* numbers drawn here are all in 0..2^31-1, where neither cast changes the value;
\* a negative i32 wraps to its value plus 2^32.
AsU32(n) == IF n >= 0 THEN n ELSE (n + 2147483647) + 2147483647 + 2
AsI32(n) == n

\* ------------------------------------------------------------- utils.rs
\* an ExitSignal::wait call that has not begun
NoWaiter == [pc |-> "idle", seen |-> 0, woken |-> FALSE, late |-> FALSE]

\* ------------------------------------------------------------ lock level
\* the registry lock of TaskService and the five locks of a Container
LockNames == {"registry", "pid", "status", "exit_code", "exited_at", "wait_channels"}
\* a lock nobody holds and nobody waits for: w is the writer (0: none), r the
\* readers, q the waiters in arrival order, each <<task, mode, pc to resume at>>
Unlocked == [w |-> 0, r |-> {}, q |-> <<>>]
\* a task that has not called: op is the method or the verb, chan and rx the
\* receiver wait_channel returned to it, enq whether its sender was pushed, code
\* the argument of set_exited, todo what is left of the handler it runs
NoCall == [op |-> "", pc |-> "idle", chan |-> 0, rx |-> "none", enq |-> FALSE, code |-> 0,
           todo |-> <<>>]
\* the channels whose receiver was dropped by its holder
RxDropped == {th[t].chan : t \in {u \in Callers : th[u].rx = "dropped"}}

\* ------------------------------------------------------------- RPC slots
NoRpc == [verb |-> "None", id |-> "", sig |-> 0, pc |-> "idle", obj |-> 0, obj2 |-> 0,
          chan |-> 0, res |-> "", val |-> <<>>]
Finished == [NoRpc EXCEPT !.pc = "done"]

\* the slot is finished, the response is handed to the transport
Reply(s, r, code, value) ==
    /\ rpc' = [rpc EXCEPT ![s] = Finished]
    /\ reply' = [r EXCEPT !.pc = "done", !.res = code, !.val = value]

\* variant: the lookup takes whatever container is registered
Lookup_AnyId(i) == registry
\* the registry lookup every verb but Create and Shutdown starts with
Lookup(i) == IF registry # 0 /\ oid[registry] = i THEN registry ELSE 0

\* exclusive access to the registry: no read guard is held
CanWrite == readers = {}

\* no response and no signal is in transit
Quiet == reply = NoRpc /\ lastKill = <<0, 0>>

\* the k-th RPC arrives and runs up to its first await
Request(v, i, g) == [NoRpc EXCEPT !.verb = v, !.id = i, !.sig = g]
Issue(s) ==
    /\ Quiet
    /\ calls < MaxCalls
    /\ s = calls + 1
    /\ calls' = calls + 1
\* an RPC resumes at pc
Resume(s, pc) == Quiet /\ rpc[s].pc = pc /\ UNCHANGED calls

Init ==
    /\ registry = 0
    /\ readers = {}
    /\ nextObj = 1
    /\ oid = [o \in Objs |-> ""]
    /\ status = [o \in Objs |-> UNKNOWN]
    /\ pid = [o \in Objs |-> 0]
    /\ exit_code = [o \in Objs |-> 0]
    /\ exited_at = [o \in Objs |-> NoTime]
    /\ wait_channels = [o \in Objs |-> <<>>]
    /\ dropped = {}
    /\ nextChan = 1
    /\ chanMsgs = [c \in Chans |-> 0]
    /\ chanTx = [c \in Chans |-> FALSE]
    /\ chanSent = [c \in Chans |-> 0]
    /\ rpc = [s \in Slots |-> NoRpc]
    /\ calls = 0
    /\ reply = NoRpc
    /\ proc = [p \in Pids |-> "none"]
    /\ wstat = [p \in Pids |-> StillAlive]
    /\ lastKill = <<0, 0>>
    /\ sigchld = FALSE
    /\ container_pid = WatchedPid
    /\ dpc = "select"
    /\ events = <<>>
    /\ now = 1
    /\ exited = FALSE
    /\ stopSnap = [o \in Objs |-> <<>>]
    /\ notify_waiters_calls = 0
    /\ waiter = [w \in Waiters |-> NoWaiter]
    /\ signaler = [g \in Signalers |-> "idle"]
    /\ daemon = "serving"
    /\ socket_file = TRUE
    /\ lpc = "parse"
    /\ launch_id = ""
    /\ socket_path = <<>>
    /\ uds = "none"
    /\ stdout = <<>>
    /\ lcode = -1
    /\ lfail = ""
    /\ client = "waiting"
    /\ th = [t \in Callers |-> NoCall]
    /\ locks = [l \in LockNames |-> Unlocked]

\* ------------------------------------------------------------ container.rs
Range(f) == {f[i] : i \in DOMAIN f}

\* Container::new
NewContainer(o, i) ==
    /\ oid' = [oid EXCEPT ![o] = i]
    /\ status' = [status EXCEPT ![o] = UNKNOWN]
    /\ pid' = [pid EXCEPT ![o] = 0]
    /\ exit_code' = [exit_code EXCEPT ![o] = 0]
    /\ exited_at' = [exited_at EXCEPT ![o] = NoTime]
    /\ wait_channels' = [wait_channels EXCEPT ![o] = <<>>]

\* variant: the senders of a destroyed container stay alive
Destroy_KeepSenders(o) ==
    /\ dropped' = IF o = 0 THEN dropped ELSE dropped \cup {o}
    /\ chanTx' = chanTx
    /\ oid' = [x \in Objs |-> IF x = o THEN "" ELSE oid[x]]
    /\ status' = [x \in Objs |-> IF x = o THEN UNKNOWN ELSE status[x]]
    /\ pid' = [x \in Objs |-> IF x = o THEN 0 ELSE pid[x]]
    /\ exit_code' = [x \in Objs |-> IF x = o THEN 0 ELSE exit_code[x]]
    /\ exited_at' = [x \in Objs |-> IF x = o THEN NoTime ELSE exited_at[x]]
    /\ wait_channels' = [x \in Objs |-> IF x = o THEN <<>> ELSE wait_channels[x]]
    /\ stopSnap' = [x \in Objs |-> IF x = o THEN <<>> ELSE stopSnap[x]]

\* a container is destroyed: its memory is gone, the senders it held are dropped
Destroy(o) ==
    /\ dropped' = IF o = 0 THEN dropped ELSE dropped \cup {o}
    /\ chanTx' = [c \in Chans |-> IF o # 0 /\ c \in Range(wait_channels[o]) THEN FALSE ELSE chanTx[c]]
    /\ oid' = [x \in Objs |-> IF x = o THEN "" ELSE oid[x]]
    /\ status' = [x \in Objs |-> IF x = o THEN UNKNOWN ELSE status[x]]
    /\ pid' = [x \in Objs |-> IF x = o THEN 0 ELSE pid[x]]
    /\ exit_code' = [x \in Objs |-> IF x = o THEN 0 ELSE exit_code[x]]
    /\ exited_at' = [x \in Objs |-> IF x = o THEN NoTime ELSE exited_at[x]]
    /\ wait_channels' = [x \in Objs |-> IF x = o THEN <<>> ELSE wait_channels[x]]
    /\ stopSnap' = [x \in Objs |-> IF x = o THEN <<>> ELSE stopSnap[x]]

\* the outcomes of spawning the runtime binary and waiting for it
RuntimeOutcomes == {"ok", "failed", "nospawn"}
\* a runtime child that exited raises SIGCHLD, seen while the dispatcher's stream exists
ChldAfter(out) == IF out = "nospawn" \/ dpc # "select" THEN sigchld ELSE TRUE

\* the pid the runtime gives the next container process
FreePids == {p \in Pids : proc[p] = "none"}
NewPid == CHOOSE p \in FreePids : \A q \in FreePids : p <= q

\* variant: the drain loop returns at the first send that fails
DrainTargets_UntilFailure(q) == {q[i] : i \in {k \in DOMAIN q : \A j \in 1..(k - 1) : q[j] \notin RxDropped}}
\* the senders the drain loop of set_exited calls send on: `let _ =` ignores a failure
DrainTargets(q) == Range(q)
\* a send succeeds while the receiver exists
Delivered(q) == DrainTargets(q) \ RxDropped

\* Container::set_exited; the clock has moved on when it returns
SetExited(o, code) ==
    /\ status' = [status EXCEPT ![o] = STOPPED]
    /\ exit_code' = [exit_code EXCEPT ![o] = code]
    /\ exited_at' = [exited_at EXCEPT ![o] = now]
    /\ now' = now + 1
    /\ chanMsgs' = [c \in Chans |-> IF c \in Delivered(wait_channels[o]) THEN chanMsgs[c] + 1 ELSE chanMsgs[c]]
    /\ chanSent' = [c \in Chans |-> IF c \in Delivered(wait_channels[o]) THEN chanSent[c] + 1 ELSE chanSent[c]]
    /\ chanTx' = [c \in Chans |-> IF c \in Range(wait_channels[o]) THEN FALSE ELSE chanTx[c]]
    /\ wait_channels' = [wait_channels EXCEPT ![o] = <<>>]
    /\ stopSnap' = [stopSnap EXCEPT ![o] = IF stopSnap[o] = <<>> THEN <<code, now>> ELSE stopSnap[o]]

\* variant: the sender is pushed whatever the status is
Enqueues_Always(o) == TRUE
\* Container::wait_channel: whether the new sender is enqueued
Enqueues(o) == status[o] # STOPPED

\* the WaitResponse built from a container
\* variant: the timestamp is taken when the response is built
WaitResponse_AtReply(o) == <<AsU32(exit_code[o]), now>>
WaitResponse(o) == <<AsU32(exit_code[o]), exited_at[o]>>

\* --------------------------------------------------------------- signal.rs
\* kill(2)
KillSyscall(p) == IF p \in Pids /\ proc[p] \in {"alive", "zombie"} THEN "Ok" ELSE "ESRCH"
\* variant: forward_signal hands the errno to its caller
ForwardSignal_Propagating(errno) == errno
\* forward_signal: every errno is logged and swallowed
ForwardSignal(errno) == "Ok"
KillAfter(p, n) == IF p \in Pids /\ proc[p] = "alive" THEN <<p, n>> ELSE lastKill

\* variant: any number up to SIGRTMAX converts, 0 included
ValidSignal_Wide(n) == n \in 0..64

\* Signal::try_from
ValidSignal(n) == n \in 1..31

\* waitpid(container_pid, WNOHANG)
WaitPid(p) == CASE proc[p] = "zombie" -> wstat[p]
                [] proc[p] = "alive"  -> StillAlive
                [] OTHER              -> [kind |-> "ECHILD", code |-> 0]

\* variant: a signal death is reported by the bare signal number
ExitCodeOf_Raw(ws) == CASE ws.kind \in {"Exited", "Signaled"} -> <<ws.code>>
                        [] OTHER -> <<>>
\* the exit code handle_signals derives from a wait status: <<>> is None
ExitCodeOf(ws) == CASE ws.kind = "Exited"   -> <<ws.code>>
                    [] ws.kind = "Signaled" -> <<128 + ws.code>>
                    [] OTHER                -> <<>>

\* -------------------------------------------------------------- service.rs
\* variant: the existence check is left out
CreateConflict_Never == FALSE
\* TaskService::create, the uniqueness check
CreateConflict == registry # 0

CreateCheck(s, i) ==
    /\ Issue(s)
    /\ LET r == Request("Create", i, 0) IN
       IF CreateConflict
       THEN /\ Reply(s, r, "AlreadyExists", <<>>)
            /\ UNCHANGED <<contVars>>
       ELSE /\ nextObj \in Objs
            /\ NewContainer(nextObj, i)
            /\ nextObj' = nextObj + 1
            /\ rpc' = [rpc EXCEPT ![s] = [r EXCEPT !.pc = "c_runtime", !.obj = nextObj]]
            /\ UNCHANGED <<registry, dropped, stopSnap, reply>>
    /\ UNCHANGED <<readers, chanVars, procVars, sigchld, dispVars, now, exited, bootVars>>

\* variant: CREATED is published, the pid is not
PidWritten_Unset(p) == 0
\* Container::create: *pid_guard = pid, under the pid and the status write guards
PidWritten(p) == p

\* Container::create: the runtime has exited, the pid file is read
CreateRuntime(s) ==
    /\ Resume(s, "c_runtime")
    /\ \E out \in RuntimeOutcomes, pidfile \in BOOLEAN :
          /\ sigchld' = ChldAfter(out)
          /\ IF out # "ok"
             THEN /\ pidfile
                  /\ Reply(s, rpc[s], "Internal", <<>>)
                  /\ Destroy(rpc[s].obj)
                  /\ UNCHANGED proc
             ELSE /\ FreePids # {}
                  /\ proc' = [proc EXCEPT ![NewPid] = "alive"]
                  /\ IF pidfile
                     THEN /\ pid' = [pid EXCEPT ![rpc[s].obj] = PidWritten(NewPid)]
                          /\ status' = [status EXCEPT ![rpc[s].obj] = CREATED]
                          /\ rpc' = [rpc EXCEPT ![s].pc = "c_insert",
                                                ![s].val = <<AsU32(PidWritten(NewPid))>>]
                          /\ UNCHANGED <<dropped, chanTx, oid, exit_code, exited_at, wait_channels,
                                         stopSnap, reply>>
                     ELSE /\ Reply(s, rpc[s], "Internal", <<>>)
                          /\ Destroy(rpc[s].obj)
    /\ UNCHANGED <<registry, readers, nextObj, nextChan, chanMsgs, chanSent, wstat, lastKill,
                   dispVars, now, exited, bootVars>>

\* TaskService::create: self.container.write().await.replace(container)
CreateInsert(s) ==
    /\ Resume(s, "c_insert")
    /\ CanWrite
    /\ registry' = rpc[s].obj
    /\ Destroy(registry)
    /\ Reply(s, rpc[s], "OK", rpc[s].val)
    /\ UNCHANGED <<readers, nextObj, nextChan, chanMsgs, chanSent, procVars, sigchld, dispVars,
                   now, exited, bootVars>>

\* TaskService::start: lookup under the read guard, runtime spawned
StartLookup(s, i) ==
    /\ Issue(s)
    /\ LET r == Request("Start", i, 0) IN
       IF Lookup(i) # 0
       THEN /\ rpc' = [rpc EXCEPT ![s] = [r EXCEPT !.pc = "s_runtime", !.obj = Lookup(i)]]
            /\ readers' = readers \cup {s}
            /\ UNCHANGED reply
       ELSE /\ Reply(s, r, "NotFound", <<>>)
            /\ UNCHANGED readers
    /\ UNCHANGED <<contVars, chanVars, procVars, sigchld, dispVars, now, exited, bootVars>>

\* Container::start: the status a successful runtime start leaves
StatusAfterStart(st) == RUNNING

\* variant: the status is written before the runtime's exit status is looked at
StatusAfterFailedStart_Running(st) == RUNNING
\* Container::start: bail! leaves before the status is written
StatusAfterFailedStart(st) == st

StartRuntime(s) ==
    /\ Resume(s, "s_runtime")
    /\ \E out \in RuntimeOutcomes :
          /\ sigchld' = ChldAfter(out)
          /\ IF out = "ok"
             THEN /\ status' = [status EXCEPT ![rpc[s].obj] = StatusAfterStart(status[rpc[s].obj])]
                  /\ Reply(s, rpc[s], "OK", <<AsU32(pid[rpc[s].obj])>>)
             ELSE /\ Reply(s, rpc[s], "Internal", <<>>)
                  /\ status' = [status EXCEPT ![rpc[s].obj] = StatusAfterFailedStart(status[rpc[s].obj])]
    /\ readers' = readers \ {s}
    /\ UNCHANGED <<registry, nextObj, oid, pid, exit_code, exited_at, wait_channels, dropped,
                   stopSnap, chanVars, procVars, dispVars, now, exited, bootVars>>

\* TaskService::delete
DeleteLookup(s, i) ==
    /\ Issue(s)
    /\ LET r == Request("Delete", i, 0) IN
       IF Lookup(i) # 0
       THEN /\ rpc' = [rpc EXCEPT ![s] = [r EXCEPT !.pc = "d_runtime", !.obj = Lookup(i)]]
            /\ readers' = readers \cup {s}
            /\ UNCHANGED reply
       ELSE /\ Reply(s, r, "NotFound", <<>>)
            /\ UNCHANGED readers
    /\ UNCHANGED <<contVars, chanVars, procVars, sigchld, dispVars, now, exited, bootVars>>

DeleteRuntime(s) ==
    /\ Resume(s, "d_runtime")
    /\ \E out \in RuntimeOutcomes :
          /\ sigchld' = ChldAfter(out)
          /\ IF out = "ok"
             THEN /\ rpc' = [rpc EXCEPT ![s].pc = "d_take", ![s].val = <<AsU32(pid[rpc[s].obj])>>]
                  /\ UNCHANGED reply
             ELSE Reply(s, rpc[s], "Internal", <<>>)
    /\ readers' = readers \ {s}
    /\ UNCHANGED <<contVars, chanVars, procVars, dispVars, now, exited, bootVars>>

\* variant: take leaves the slot as it is
Take_Keep(r) == r
\* Option::take: the slot is left None
Take(r) == 0

\* self.container.write().await.take()
DeleteTake(s) ==
    /\ Resume(s, "d_take")
    /\ CanWrite
    /\ registry' = Take(registry)
    /\ Destroy(registry)
    /\ Reply(s, [rpc[s] EXCEPT !.obj2 = registry], "OK", rpc[s].val)
    /\ UNCHANGED <<readers, nextObj, nextChan, chanMsgs, chanSent, procVars, sigchld, dispVars,
                   now, exited, bootVars>>

\* TaskService::wait: lookup and status snapshot
WaitLookup(s, i) ==
    /\ Issue(s)
    /\ LET r == Request("Wait", i, 0)  o == Lookup(i) IN
          IF o = 0
          THEN /\ Reply(s, r, "NotFound", <<>>)
               /\ UNCHANGED readers
          ELSE IF status[o] # RUNNING /\ status[o] # CREATED
          THEN /\ Reply(s, [r EXCEPT !.obj = o, !.obj2 = o], "OK", WaitResponse(o))
               /\ UNCHANGED readers
          ELSE /\ rpc' = [rpc EXCEPT ![s] = [r EXCEPT !.pc = "w_sub", !.obj = o]]
               /\ readers' = readers \cup {s}
               /\ UNCHANGED reply
    /\ UNCHANGED <<contVars, chanVars, procVars, sigchld, dispVars, now, exited, bootVars>>

\* container.wait_channel().await; drop(container_guard)
WaitSubscribe(s) ==
    /\ Resume(s, "w_sub")
    /\ nextChan \in Chans
    /\ LET o == rpc[s].obj  c == nextChan IN
          /\ nextChan' = c + 1
          /\ IF Enqueues(o)
             THEN /\ wait_channels' = [wait_channels EXCEPT ![o] = Append(@, c)]
                  /\ chanTx' = [chanTx EXCEPT ![c] = TRUE]
             ELSE /\ chanTx' = [chanTx EXCEPT ![c] = FALSE]
                  /\ UNCHANGED wait_channels
          /\ rpc' = [rpc EXCEPT ![s].pc = "w_recv", ![s].chan = c]
    /\ readers' = readers \ {s}
    /\ UNCHANGED <<registry, nextObj, oid, status, pid, exit_code, exited_at, dropped, stopSnap,
                   chanMsgs, chanSent, reply, procVars, sigchld, dispVars, now, exited, bootVars>>

\* rx.recv().await
WaitRecv(s) ==
    /\ Resume(s, "w_recv")
    /\ LET c == rpc[s].chan IN
          \/ /\ chanMsgs[c] > 0
             /\ chanMsgs' = [chanMsgs EXCEPT ![c] = @ - 1]
             /\ rpc' = [rpc EXCEPT ![s].pc = "w_relookup"]
             /\ UNCHANGED reply
          \/ /\ chanMsgs[c] = 0
             /\ ~chanTx[c]
             /\ Reply(s, rpc[s], "Aborted", <<>>)
             /\ UNCHANGED chanMsgs
    /\ UNCHANGED <<contVars, readers, nextChan, chanTx, chanSent, procVars, sigchld, dispVars,
                   now, exited, bootVars>>

\* the second lookup of TaskService::wait
WaitRelookup(s) ==
    /\ Resume(s, "w_relookup")
    /\ LET o == Lookup(rpc[s].id) IN
          IF o = 0
          THEN Reply(s, rpc[s], "NotFound", <<>>)
          ELSE Reply(s, [rpc[s] EXCEPT !.obj2 = o], "OK", WaitResponse(o))
    /\ UNCHANGED <<contVars, readers, chanVars, procVars, sigchld, dispVars, now, exited, bootVars>>

\* TaskService::kill
Kill(s, i, g) ==
    /\ Issue(s)
    /\ LET r == Request("Kill", i, g)  o == Lookup(i)  n == AsI32(g) IN
          IF o = 0
          THEN /\ Reply(s, r, "NotFound", <<>>)
               /\ UNCHANGED lastKill
          ELSE IF ~ValidSignal(n)
          THEN /\ Reply(s, [r EXCEPT !.obj = o], "InvalidArgument", <<>>)
               /\ UNCHANGED lastKill
          ELSE /\ lastKill' = KillAfter(pid[o], n)
               /\ Reply(s, [r EXCEPT !.obj = o],
                        IF ForwardSignal(KillSyscall(pid[o])) = "Ok" THEN "OK" ELSE "Internal", <<>>)
    /\ UNCHANGED <<contVars, readers, chanVars, proc, wstat, sigchld, dispVars, now, exited, bootVars>>

\* TaskService::shutdown: kill and runtime delete under the read guard
ShutdownBegin(s) ==
    /\ Issue(s)
    /\ LET r == Request("Shutdown", "", 0) IN
       IF registry # 0
       THEN /\ lastKill' = KillAfter(pid[registry], SIGTERM)
            /\ IF ForwardSignal(KillSyscall(pid[registry])) = "Ok"
               THEN /\ rpc' = [rpc EXCEPT ![s] = [r EXCEPT !.pc = "sh_runtime", !.obj = registry]]
                    /\ readers' = readers \cup {s}
                    /\ UNCHANGED reply
               ELSE /\ Reply(s, r, "Internal", <<>>)
                    /\ UNCHANGED readers
       ELSE /\ rpc' = [rpc EXCEPT ![s] = [r EXCEPT !.pc = "sh_take"]]
            /\ UNCHANGED <<lastKill, readers, reply>>
    /\ UNCHANGED <<contVars, chanVars, proc, wstat, sigchld, dispVars, now, exited, bootVars>>

ShutdownRuntime(s) ==
    /\ Resume(s, "sh_runtime")
    /\ \E out \in RuntimeOutcomes :
          /\ sigchld' = ChldAfter(out)
          /\ IF out = "ok"
             THEN /\ rpc' = [rpc EXCEPT ![s].pc = "sh_take"]
                  /\ UNCHANGED reply
             ELSE Reply(s, rpc[s], "Internal", <<>>)
    /\ readers' = readers \ {s}
    /\ UNCHANGED <<contVars, chanVars, procVars, dispVars, now, exited, bootVars>>

\* self.container.write().await.take(); self.exit_signal.signal()
ShutdownTake(s) ==
    /\ Resume(s, "sh_take")
    /\ CanWrite
    /\ registry' = Take(registry)
    /\ Destroy(registry)
    /\ exited' = TRUE
    /\ Reply(s, [rpc[s] EXCEPT !.obj2 = registry], "OK", <<>>)
    /\ UNCHANGED <<readers, nextObj, nextChan, chanMsgs, chanSent, procVars, sigchld, dispVars,
                   now, bootVars>>

\* the response is on the wire, the signal is delivered
Flush ==
    /\ ~Quiet
    /\ reply' = NoRpc
    /\ lastKill' = <<0, 0>>
    /\ UNCHANGED <<contVars, readers, chanVars, rpc, calls, proc, wstat, sigchld, dispVars, now,
                   exited, bootVars>>

\* ---------------------------------------------------------------- processes
\* a child of the shim terminates
ProcExit(p) ==
    /\ Quiet
    /\ proc[p] = "alive"
    /\ IF p = container_pid
       THEN \E ws \in ExitStatuses : wstat' = [wstat EXCEPT ![p] = ws]
       ELSE UNCHANGED wstat
    /\ proc' = [proc EXCEPT ![p] = "zombie"]
    /\ sigchld' = ChldAfter("exit")
    /\ UNCHANGED <<contVars, readers, chanVars, rpcVars, calls, lastKill, dispVars, now, exited, bootVars>>

\* ----------------------------------------------- signal.rs: handle_signals
\* the SIGCHLD arm: one waitpid, the event sent to every sender, then break
DispatcherChld ==
    /\ Quiet
    /\ dpc = "select"
    /\ sigchld
    /\ sigchld' = FALSE
    /\ LET ws == WaitPid(container_pid) IN
          IF ws.kind = "ECHILD"
          THEN /\ dpc' = "failed"
               /\ UNCHANGED <<proc, events>>
          ELSE /\ dpc' = "done"
               /\ proc' = IF ws.kind = "StillAlive" THEN proc ELSE [proc EXCEPT ![container_pid] = "reaped"]
               /\ events' = events \o ExitCodeOf(ws)
    /\ UNCHANGED <<contVars, readers, chanVars, rpcVars, calls, wstat, lastKill, container_pid,
                   now, exited, bootVars>>

\* the SIGINT, SIGTERM and SIGQUIT arms
DispatcherForward ==
    /\ Quiet
    /\ dpc = "select"
    /\ \E n \in {SIGINT, SIGTERM, SIGQUIT} : lastKill' = KillAfter(container_pid, n)
    /\ lastKill' # lastKill
    /\ UNCHANGED <<contVars, readers, chanVars, rpcVars, calls, proc, wstat, sigchld, dispVars,
                   now, exited, bootVars>>

\* ------------------------------------------ main.rs: exit-event consumer
\* variant: the consumer takes the registry shared, beside the RPC readers
ConsumerCanLock_Shared == TRUE
\* container.lock().await: the consumer holds the registry exclusively
ConsumerCanLock == readers = {}

\* one turn of the loop: an event is received and, under the lock, set_exited
\* is called on the container the registry holds; the call is taken to run to
\* its end there (it is written without .await)
Consumer ==
    /\ Quiet
    /\ events # <<>>
    /\ ConsumerCanLock
    /\ events' = Tail(events)
    /\ IF registry # 0
       THEN /\ SetExited(registry, Head(events))
            /\ UNCHANGED nextChan
       ELSE UNCHANGED <<status, exit_code, exited_at, wait_channels, chanVars, stopSnap, now>>
    /\ UNCHANGED <<registry, readers, nextObj, oid, pid, dropped, rpcVars, calls, procVars,
                   sigchld, container_pid, dpc, exited, bootVars>>

Next ==
    \/ \E s \in Slots, i \in CreateIds : CreateCheck(s, i)
    \/ \E s \in Slots : CreateRuntime(s)
    \/ \E s \in Slots : CreateInsert(s)
    \/ \E s \in Slots, i \in Ids : StartLookup(s, i)
    \/ \E s \in Slots : StartRuntime(s)
    \/ \E s \in Slots, i \in Ids : DeleteLookup(s, i)
    \/ \E s \in Slots : DeleteRuntime(s)
    \/ \E s \in Slots : DeleteTake(s)
    \/ \E s \in Slots, i \in Ids : WaitLookup(s, i)
    \/ \E s \in Slots : WaitSubscribe(s)
    \/ \E s \in Slots : WaitRecv(s)
    \/ \E s \in Slots : WaitRelookup(s)
    \/ \E s \in Slots, i \in Ids, g \in SignalInputs : Kill(s, i, g)
    \/ \E s \in Slots : ShutdownBegin(s)
    \/ \E s \in Slots : ShutdownRuntime(s)
    \/ \E s \in Slots : ShutdownTake(s)
    \/ Flush
    \/ \E p \in Pids : ProcExit(p)
    \/ DispatcherChld
    \/ DispatcherForward
    \/ Consumer

Spec == Init /\ [][Next]_vars

\* the steps an RPC in flight takes when the future it awaits is ready
RpcStep(s) ==
    \/ CreateRuntime(s) \/ CreateInsert(s)
    \/ StartRuntime(s)
    \/ DeleteRuntime(s) \/ DeleteTake(s)
    \/ WaitSubscribe(s) \/ WaitRecv(s) \/ WaitRelookup(s)
    \/ ShutdownRuntime(s) \/ ShutdownTake(s)

\* the tokio runtime polls every task that is ready: an RPC in flight, the
\* transport, the dispatcher and the consumer each take their step when it is
\* possible again and again (a response or a signal in transit only delays a
\* step). Nothing obliges a client to call, a process to exit or a signal to
\* arrive.
FairSpec ==
    /\ Spec
    /\ \A s \in Slots : SF_vars(RpcStep(s))
    /\ SF_vars(Flush)
    /\ SF_vars(DispatcherChld)
    /\ SF_vars(Consumer)

TypeOK ==
    /\ registry \in 0..MaxCalls
    /\ readers \subseteq Slots
    /\ \A o \in Objs : status[o] \in {UNKNOWN, CREATED, RUNNING, STOPPED}
    /\ \A o \in Objs : status[o] # UNKNOWN => pid[o] \in Pids


\* =========================================================================
\* The exit latch (utils.rs) and the daemon bootstrap that waits on it
\* (main.rs start_daemon), with the task service reduced to the Shutdown RPCs
\* that end in ExitSignal::signal.
\* =========================================================================
\* the wait() the server polls as its shutdown future
ServerWaiter == 1

\* some signal() call has returned
SignalReturned == \E g \in Signalers : signaler[g] = "done"

\* ExitSignal::wait is called
LatchWaitCall(w) ==
    /\ waiter[w].pc = "idle"
    /\ waiter' = [waiter EXCEPT ![w].pc = "loop", ![w].late = SignalReturned]
    /\ UNCHANGED <<taskVars, exited, notify_waiters_calls, signaler, daemon, socket_file, launchVars, lockVars>>

\* let notified = self.notifier.notified(): the future records the number of
\* notify_waiters calls made before it was created
LatchWaitNotified(w) ==
    /\ waiter[w].pc = "loop"
    /\ waiter' = [waiter EXCEPT ![w].pc = "check", ![w].seen = notify_waiters_calls]
    /\ UNCHANGED <<taskVars, exited, notify_waiters_calls, signaler, daemon, socket_file, launchVars, lockVars>>

\* if self.exited.load(SeqCst) { break }
LatchWaitLoad(w) ==
    /\ waiter[w].pc = "check"
    /\ waiter' = [waiter EXCEPT ![w].pc = IF exited THEN "returned" ELSE "poll"]
    /\ UNCHANGED <<taskVars, exited, notify_waiters_calls, signaler, daemon, socket_file, launchVars, lockVars>>

\* variant: a notify_waiters call reaches only the futures already polled
NotifiedReady_OnlyParked(w) == FALSE
\* Notified, first poll: ready when notify_waiters was called since its creation
NotifiedReady(w) == notify_waiters_calls # waiter[w].seen

\* notified.await, first poll: ready, or parked in the waiter list
LatchWaitPoll(w) ==
    /\ waiter[w].pc = "poll"
    /\ waiter' = [waiter EXCEPT ![w].pc = IF NotifiedReady(w) THEN "loop" ELSE "parked",
                                ![w].woken = FALSE]
    /\ UNCHANGED <<taskVars, exited, notify_waiters_calls, signaler, daemon, socket_file, launchVars, lockVars>>

\* notified.await: a parked future that was woken completes, the loop goes round
LatchWaitWake(w) ==
    /\ waiter[w].pc = "parked"
    /\ waiter[w].woken
    /\ waiter' = [waiter EXCEPT ![w].pc = "loop", ![w].woken = FALSE]
    /\ UNCHANGED <<taskVars, exited, notify_waiters_calls, signaler, daemon, socket_file, launchVars, lockVars>>

\* a Shutdown RPC is served
ShutdownRpc(g) ==
    /\ daemon = "serving"
    /\ signaler[g] = "idle"
    /\ signaler' = [signaler EXCEPT ![g] = "running"]
    /\ UNCHANGED <<taskVars, exited, notify_waiters_calls, waiter, daemon, socket_file, launchVars, lockVars>>

\* TaskService::shutdown returns Internal before it reaches exit_signal.signal()
ShutdownRpcFails(g) ==
    /\ signaler[g] = "running"
    /\ signaler' = [signaler EXCEPT ![g] = "failed"]
    /\ UNCHANGED <<taskVars, exited, notify_waiters_calls, waiter, daemon, socket_file, launchVars, lockVars>>

\* ExitSignal::signal: self.exited.store(true, SeqCst)
LatchSignalStore(g) ==
    /\ signaler[g] = "running"
    /\ signaler' = [signaler EXCEPT ![g] = "stored"]
    /\ exited' = TRUE
    /\ UNCHANGED <<taskVars, notify_waiters_calls, waiter, daemon, socket_file, launchVars, lockVars>>

\* ExitSignal::signal: self.notifier.notify_waiters()
LatchSignalNotify(g) ==
    /\ signaler[g] = "stored"
    /\ signaler' = [signaler EXCEPT ![g] = "done"]
    /\ notify_waiters_calls' = notify_waiters_calls + 1
    /\ waiter' = [w \in Waiters |->
                    IF waiter[w].pc = "parked" THEN [waiter[w] EXCEPT !.woken = TRUE] ELSE waiter[w]]
    /\ UNCHANGED <<taskVars, exited, daemon, socket_file, launchVars, lockVars>>

\* variant: the server stops without its shutdown future having completed
ShutdownFutureDone_Always == TRUE
\* serve_with_incoming_shutdown: the shutdown future shutdown_signal.wait() has completed
ShutdownFutureDone == waiter[ServerWaiter].pc = "returned"

\* serve_with_incoming_shutdown(..).await returns Ok
ServeReturns ==
    /\ daemon = "serving"
    /\ ShutdownFutureDone
    /\ daemon' = "stopped"
    /\ UNCHANGED <<taskVars, exited, notify_waiters_calls, waiter, signaler, socket_file, launchVars, lockVars>>

\* serve_with_incoming_shutdown(..).await? returns a transport error
ServeFails ==
    /\ daemon = "serving"
    /\ daemon' = "failed"
    /\ UNCHANGED <<taskVars, exited, notify_waiters_calls, waiter, signaler, socket_file, launchVars, lockVars>>

\* fs::remove_file(socket_path).await, then Ok(()) or the error
RemoveSocket ==
    /\ daemon = "stopped"
    /\ \/ socket_file' = FALSE /\ daemon' = "exit0"
       \/ socket_file' = socket_file /\ daemon' = "failed"
    /\ UNCHANGED <<taskVars, exited, notify_waiters_calls, waiter, signaler, launchVars, lockVars>>

DaemonNext ==
    \/ \E w \in Waiters : LatchWaitCall(w)
    \/ \E w \in Waiters : LatchWaitNotified(w)
    \/ \E w \in Waiters : LatchWaitLoad(w)
    \/ \E w \in Waiters : LatchWaitPoll(w)
    \/ \E w \in Waiters : LatchWaitWake(w)
    \/ \E g \in Signalers : ShutdownRpc(g)
    \/ \E g \in Signalers : ShutdownRpcFails(g)
    \/ \E g \in Signalers : LatchSignalStore(g)
    \/ \E g \in Signalers : LatchSignalNotify(g)
    \/ ServeReturns
    \/ ServeFails
    \/ RemoveSocket

DaemonSpec == Init /\ [][DaemonNext]_vars

\* =========================================================================
\* The launcher (main.rs, fn start) and the client that reads its stdout
\* =========================================================================
LaunchIds == {"a", "b", "c"}            \* values of --id
SOCKET_ROOT == "/run/shim"
\* DefaultHasher of the id: 64 bits, two ids may collide
Hash(i) == CASE i = "a" -> 11 [] i = "b" -> 12 [] OTHER -> 11
\* PathBuf::from(SOCKET_ROOT).join(format!("{}.sock", hash))
SocketPath(i) == <<SOCKET_ROOT, Hash(i), ".sock">>
\* format!("unix://{}", socket_path.display())
SocketAddr(p) == <<"unix://", p>>

\* a statement of start fails: `?` returns the error, main exits with FAILURE;
\* a listener the launcher holds is closed with the process
LaunchAbort(step) ==
    /\ lpc' = "exit"
    /\ lcode' = 1
    /\ lfail' = step
    /\ uds' = IF uds = "launcher" THEN "closed" ELSE uds
    /\ UNCHANGED <<launch_id, socket_path, stdout, client>>

\* Args::parse, the hash of the id, the socket path
LaunchParse(i) ==
    /\ lpc = "parse"
    /\ lpc' = "root"
    /\ launch_id' = i
    /\ socket_path' = SocketPath(i)
    /\ UNCHANGED <<uds, stdout, lcode, lfail, client>>
    /\ UNCHANGED <<taskVars, exited, notify_waiters_calls, waiter, signaler, daemon, socket_file, lockVars>>

\* std::fs::create_dir_all(SOCKET_ROOT)
LaunchCreateRoot ==
    /\ lpc = "root"
    /\ \/ lpc' = "bind" /\ UNCHANGED <<launch_id, socket_path, uds, stdout, lcode, lfail, client>>
       \/ LaunchAbort("root")
    /\ UNCHANGED <<taskVars, exited, notify_waiters_calls, waiter, signaler, daemon, socket_file, lockVars>>

\* UnixListener::bind(&socket_path)
LaunchBind ==
    /\ lpc = "bind"
    /\ \/ /\ lpc' = "write"
          /\ uds' = "launcher"
          /\ UNCHANGED <<launch_id, socket_path, stdout, lcode, lfail, client>>
       \/ LaunchAbort("bind")
    /\ UNCHANGED <<taskVars, exited, notify_waiters_calls, waiter, signaler, daemon, socket_file, lockVars>>

\* stdout().write_all(socket_addr.as_bytes()) and stdout().flush()
LaunchWrite ==
    /\ lpc = "write"
    /\ \/ /\ lpc' = "exe"
          /\ stdout' = Append(stdout, SocketAddr(socket_path))
          /\ UNCHANGED <<launch_id, socket_path, uds, lcode, lfail, client>>
       \/ LaunchAbort("write")
    /\ UNCHANGED <<taskVars, exited, notify_waiters_calls, waiter, signaler, daemon, socket_file, lockVars>>

\* env::current_exe()
LaunchCurrentExe ==
    /\ lpc = "exe"
    /\ \/ lpc' = "cwd" /\ UNCHANGED <<launch_id, socket_path, uds, stdout, lcode, lfail, client>>
       \/ LaunchAbort("exe")
    /\ UNCHANGED <<taskVars, exited, notify_waiters_calls, waiter, signaler, daemon, socket_file, lockVars>>

\* env::current_dir()
LaunchCurrentDir ==
    /\ lpc = "cwd"
    /\ \/ lpc' = "fds" /\ UNCHANGED <<launch_id, socket_path, uds, stdout, lcode, lfail, client>>
       \/ LaunchAbort("cwd")
    /\ UNCHANGED <<taskVars, exited, notify_waiters_calls, waiter, signaler, daemon, socket_file, lockVars>>

\* command.fd_mappings(..): the listener moves into the command
LaunchFdMappings ==
    /\ lpc = "fds"
    /\ \/ lpc' = "spawn" /\ UNCHANGED <<launch_id, socket_path, uds, stdout, lcode, lfail, client>>
       \/ LaunchAbort("fds")
    /\ UNCHANGED <<taskVars, exited, notify_waiters_calls, waiter, signaler, daemon, socket_file, lockVars>>

\* command.spawn(): the child inherits the listener on SOCKET_FD; start returns Ok
LaunchSpawn ==
    /\ lpc = "spawn"
    /\ \/ /\ lpc' = "exit"
          /\ lcode' = 0
          /\ uds' = "child"
          /\ UNCHANGED <<launch_id, socket_path, stdout, lfail, client>>
       \/ LaunchAbort("spawn")
    /\ UNCHANGED <<taskVars, exited, notify_waiters_calls, waiter, signaler, daemon, socket_file, lockVars>>

\* the client reads the address from the launcher's stdout
ClientRead ==
    /\ client = "waiting"
    /\ stdout # <<>>
    /\ client' = "read"
    /\ UNCHANGED <<lpc, launch_id, socket_path, uds, stdout, lcode, lfail>>
    /\ UNCHANGED <<taskVars, exited, notify_waiters_calls, waiter, signaler, daemon, socket_file, lockVars>>

\* the client dials the address it read
ClientDial ==
    /\ client = "read"
    /\ client' = IF uds \in {"launcher", "child"} THEN "connected" ELSE "refused"
    /\ UNCHANGED <<lpc, launch_id, socket_path, uds, stdout, lcode, lfail>>
    /\ UNCHANGED <<taskVars, exited, notify_waiters_calls, waiter, signaler, daemon, socket_file, lockVars>>

LaunchNext ==
    \/ \E i \in LaunchIds : LaunchParse(i)
    \/ LaunchCreateRoot
    \/ LaunchBind
    \/ LaunchWrite
    \/ LaunchCurrentExe
    \/ LaunchCurrentDir
    \/ LaunchFdMappings
    \/ LaunchSpawn
    \/ ClientRead
    \/ ClientDial

LaunchSpec == Init /\ [][LaunchNext]_vars

\* =========================================================================
\* Lock level: tokio::sync::RwLock, and one Container called by several tasks
\* =========================================================================
\* the lock can be taken in mode m ("r" or "w") as far as its holders go
Free(l, m) == IF m = "w" THEN locks[l].w = 0 /\ locks[l].r = {} ELSE locks[l].w = 0
\* the lock record once task t holds it in mode m
Hold(lk, t, m) == IF m = "w" THEN [lk EXCEPT !.w = t] ELSE [lk EXCEPT !.r = @ \cup {t}]

\* read().await or write().await: the lock is fair, a task gets it at once only
\* when nobody is queued; otherwise it queues and is resumed at pc next later.
\* rec is the task's record after the step.
Acquire(t, l, m, next, rec) ==
    IF locks[l].q = <<>> /\ Free(l, m)
    THEN /\ locks' = [locks EXCEPT ![l] = Hold(@, t, m)]
         /\ th' = [th EXCEPT ![t] = [rec EXCEPT !.pc = next]]
    ELSE /\ locks' = [locks EXCEPT ![l].q = Append(@, <<t, m, next>>)]
         /\ th' = [th EXCEPT ![t] = [rec EXCEPT !.pc = "blocked"]]

\* the guards of task t on the locks in S are dropped
Release(t, S) ==
    locks' = [l \in LockNames |->
                 IF l \in S
                 THEN [locks[l] EXCEPT !.w = IF @ = t THEN 0 ELSE @, !.r = @ \ {t}]
                 ELSE locks[l]]

\* the first waiter of a lock gets it
LockGrant(l) ==
    /\ locks[l].q # <<>>
    /\ LET h == Head(locks[l].q) IN
          /\ Free(l, h[2])
          /\ locks' = [locks EXCEPT ![l] = Hold([locks[l] EXCEPT !.q = Tail(locks[l].q)], h[1], h[2])]
          /\ th' = [th EXCEPT ![h[1]].pc = h[3]]

\* the container the tasks call into
Unit == 1
\* the exit codes set_exited is called with
UnitCodes == {3, 137}

\* what no call into the container touches
unitFrame == <<registry, readers, nextObj, oid, pid, dropped, rpc, calls, reply, proc, wstat,
               lastKill, sigchld, container_pid, dpc, events, exited, notify_waiters_calls,
               waiter, signaler, daemon, socket_file, launchVars>>
unitData == <<status, exit_code, exited_at, wait_channels, stopSnap, now>>

UnitGrant(l) ==
    /\ LockGrant(l)
    /\ UNCHANGED <<unitFrame, unitData, chanVars>>

\* Container::wait_channel: the channel is made, the status read guard asked for
UnitWaitChannel(t) ==
    /\ th[t].pc = "idle"
    /\ nextChan \in Chans
    /\ nextChan' = nextChan + 1
    /\ chanTx' = [chanTx EXCEPT ![nextChan] = TRUE]
    /\ Acquire(t, "status", "r", "wc_check",
               [th[t] EXCEPT !.op = "wait_channel", !.chan = nextChan, !.rx = "open"])
    /\ UNCHANGED <<unitFrame, unitData, chanMsgs, chanSent>>

\* if *status_guard != Status::STOPPED { self.wait_channels.write().await ...
UnitWcCheck(t) ==
    /\ th[t].pc = "wc_check"
    /\ IF Enqueues(Unit)
       THEN Acquire(t, "wait_channels", "w", "wc_push", th[t])
       ELSE /\ th' = [th EXCEPT ![t].pc = "wc_ret"]
            /\ UNCHANGED locks
    /\ UNCHANGED <<unitFrame, unitData, chanVars>>

\* ... .push(tx); }
UnitWcPush(t) ==
    /\ th[t].pc = "wc_push"
    /\ wait_channels' = [wait_channels EXCEPT ![Unit] = Append(@, th[t].chan)]
    /\ th' = [th EXCEPT ![t].pc = "wc_ret", ![t].enq = TRUE]
    /\ Release(t, {"wait_channels"})
    /\ UNCHANGED <<unitFrame, status, exit_code, exited_at, stopSnap, now, chanVars>>

\* rx is returned: the status guard is dropped, and tx with it unless it was pushed
UnitWcReturn(t) ==
    /\ th[t].pc = "wc_ret"
    /\ th' = [th EXCEPT ![t].pc = "holding"]
    /\ Release(t, {"status"})
    /\ chanTx' = IF th[t].enq THEN chanTx ELSE [chanTx EXCEPT ![th[t].chan] = FALSE]
    /\ UNCHANGED <<unitFrame, unitData, nextChan, chanMsgs, chanSent>>

\* the holder of rx awaits rx.recv()
UnitRecv(t) ==
    /\ th[t].pc = "holding"
    /\ LET c == th[t].chan IN
          \/ /\ chanMsgs[c] > 0
             /\ chanMsgs' = [chanMsgs EXCEPT ![c] = @ - 1]
             /\ th' = [th EXCEPT ![t].pc = "done", ![t].rx = "notified"]
          \/ /\ chanMsgs[c] = 0
             /\ ~chanTx[c]
             /\ th' = [th EXCEPT ![t].pc = "done", ![t].rx = "closed"]
             /\ UNCHANGED chanMsgs
    /\ UNCHANGED <<unitFrame, unitData, locks, nextChan, chanTx, chanSent>>

\* the holder of rx is cancelled: rx is dropped while it waits
UnitDropRx(t) ==
    /\ th[t].pc = "holding"
    /\ th' = [th EXCEPT ![t].pc = "done", ![t].rx = "dropped"]
    /\ UNCHANGED <<unitFrame, unitData, locks, chanVars>>

\* Container::set_exited: the four write guards are taken one after the other
UnitSetExited(t, code) ==
    /\ th[t].pc = "idle"
    /\ Acquire(t, "status", "w", "se_code", [th[t] EXCEPT !.op = "set_exited", !.code = code])
    /\ UNCHANGED <<unitFrame, unitData, chanVars>>

UnitSeCode(t) ==
    /\ th[t].pc = "se_code"
    /\ Acquire(t, "exit_code", "w", "se_at", th[t])
    /\ UNCHANGED <<unitFrame, unitData, chanVars>>

UnitSeAt(t) ==
    /\ th[t].pc = "se_at"
    /\ Acquire(t, "exited_at", "w", "se_write", th[t])
    /\ UNCHANGED <<unitFrame, unitData, chanVars>>

UnitSeWrite(t) ==
    /\ th[t].pc = "se_write"
    /\ Acquire(t, "wait_channels", "w", "se_drain", th[t])
    /\ UNCHANGED <<unitFrame, unitData, chanVars>>

\* the three fields are written and the senders drained under the four guards,
\* which are dropped at the end of the function: no task reads a field between
\* the writes, so they take effect together here
UnitSeDrain(t) ==
    /\ th[t].pc = "se_drain"
    /\ SetExited(Unit, th[t].code)
    /\ th' = [th EXCEPT ![t].pc = "done"]
    /\ Release(t, {"status", "exit_code", "exited_at", "wait_channels"})
    /\ UNCHANGED <<unitFrame, nextChan>>

\* Container::start, after the runtime exited with success: the status write
UnitStart(t) ==
    /\ th[t].pc = "idle"
    /\ Acquire(t, "status", "w", "st_write", [th[t] EXCEPT !.op = "start"])
    /\ UNCHANGED <<unitFrame, unitData, chanVars>>

UnitStWrite(t) ==
    /\ th[t].pc = "st_write"
    /\ status' = [status EXCEPT ![Unit] = StatusAfterStart(status[Unit])]
    /\ th' = [th EXCEPT ![t].pc = "done"]
    /\ Release(t, {"status"})
    /\ UNCHANGED <<unitFrame, exit_code, exited_at, wait_channels, stopSnap, now, chanVars>>

UnitNext ==
    \/ \E t \in Callers : UnitWaitChannel(t)
    \/ \E t \in Callers : UnitWcCheck(t)
    \/ \E t \in Callers : UnitWcPush(t)
    \/ \E t \in Callers : UnitWcReturn(t)
    \/ \E t \in Callers : UnitRecv(t)
    \/ \E t \in Callers : UnitDropRx(t)
    \/ \E t \in Callers, code \in UnitCodes : UnitSetExited(t, code)
    \/ \E t \in Callers : UnitSeCode(t)
    \/ \E t \in Callers : UnitSeAt(t)
    \/ \E t \in Callers : UnitSeWrite(t)
    \/ \E t \in Callers : UnitSeDrain(t)
    \/ \E t \in Callers : UnitStart(t)
    \/ \E t \in Callers : UnitStWrite(t)
    \/ \E l \in LockNames : UnitGrant(l)

\* one Container, fresh from Container::new, and the tasks that call its methods
ContainerSpec == Init /\ [][UnitNext]_vars

\* =========================================================================
\* Lock level: the RPC handlers and the consumer, by the locks they take
\* =========================================================================
\* A handler is the sequence of its lock operations and of its other awaits
\* (the runtime, rx.recv()); where the code branches, the rest is one of several
\* continuations. A container is reached through a registry guard only, so the
\* five container locks are those of the registered container. A Create works
\* on a container that no other task can reach until it is inserted: the guards
\* it takes on it (container.rs:90-91, pid then status, and pid() after) never
\* wait and are left out.
Acq(l, m) == <<"acq", l, m>>
Rel(S) == <<"rel", S>>
Await == <<"await">>
Alt(S) == <<"alt", S>>

\* TaskService::create
CreateProgram ==
    <<Acq("registry", "r"), Rel({"registry"}),
      Alt({<<>>,
           <<Await, Alt({<<>>, <<Acq("registry", "w"), Rel({"registry"})>>})>>})>>

\* TaskService::start, with Container::start and Container::pid
StartProgram ==
    <<Acq("registry", "r"),
      Alt({<<Rel({"registry"})>>,
           <<Await,
             Alt({<<Rel({"registry"})>>,
                  <<Acq("status", "w"), Rel({"status"}), Acq("pid", "r"), Rel({"pid"}),
                    Rel({"registry"})>>})>>})>>

\* variant: the read guard is still held when the write lock is asked for
DeleteProgram_KeepGuard ==
    <<Acq("registry", "r"),
      Alt({<<Rel({"registry"})>>,
           <<Await,
             Alt({<<Rel({"registry"})>>,
                  <<Acq("pid", "r"), Rel({"pid"}),
                    Acq("registry", "w"), Rel({"registry"})>>})>>})>>
\* TaskService::delete
DeleteProgram ==
    <<Acq("registry", "r"),
      Alt({<<Rel({"registry"})>>,
           <<Await,
             Alt({<<Rel({"registry"})>>,
                  <<Acq("pid", "r"), Rel({"pid"}), Rel({"registry"}),
                    Acq("registry", "w"), Rel({"registry"})>>})>>})>>

\* the response of Wait is built: exit_code() and exited_at()
ReadExit == <<Acq("exit_code", "r"), Rel({"exit_code"}), Acq("exited_at", "r"), Rel({"exited_at"})>>

\* TaskService::wait, with Container::status and Container::wait_channel
WaitProgram ==
    <<Acq("registry", "r"),
      Alt({<<Rel({"registry"})>>,
           <<Acq("status", "r"), Rel({"status"}),
             Alt({ReadExit \o <<Rel({"registry"})>>,
                  <<Acq("status", "r"),
                    Alt({<<Rel({"status"})>>,
                         <<Acq("wait_channels", "w"), Rel({"wait_channels"}), Rel({"status"})>>}),
                    Rel({"registry"}), Await,
                    Alt({<<>>,
                         <<Acq("registry", "r"),
                           Alt({<<Rel({"registry"})>>,
                                ReadExit \o <<Rel({"registry"})>>})>>})>>})>>})>>

\* TaskService::kill, with Container::kill
KillProgram ==
    <<Acq("registry", "r"),
      Alt({<<Rel({"registry"})>>,
           <<Acq("pid", "r"), Rel({"pid"}), Rel({"registry"})>>})>>

\* TaskService::shutdown
ShutdownProgram ==
    <<Acq("registry", "r"),
      Alt({<<Rel({"registry"}), Acq("registry", "w"), Rel({"registry"})>>,
           <<Acq("pid", "r"), Rel({"pid"}),
             Alt({<<Rel({"registry"})>>,
                  <<Await,
                    Alt({<<Rel({"registry"})>>,
                         <<Rel({"registry"}), Acq("registry", "w"), Rel({"registry"})>>})>>})>>})>>

\* one turn of the consumer: the event, the registry held exclusively, set_exited
ConsumerProgram ==
    <<Await, Acq("registry", "w"),
      Alt({<<Rel({"registry"})>>,
           <<Acq("status", "w"), Acq("exit_code", "w"), Acq("exited_at", "w"),
             Acq("wait_channels", "w"),
             Rel({"status", "exit_code", "exited_at", "wait_channels"}), Rel({"registry"})>>})>>

Programs == {CreateProgram, StartProgram, DeleteProgram, WaitProgram, KillProgram,
             ShutdownProgram, ConsumerProgram}

\* what no lock-level task touches
lockFrame == <<taskVars, exited, notify_waiters_calls, waiter, signaler, daemon, socket_file,
               launchVars>>

\* what is left after the operation at the head: where the code branches next
\* (on the lookup, on the status, on a result) the branch taken is part of it
Rest(todo) ==
    LET tl == Tail(todo) IN
       IF tl # <<>> /\ Head(tl)[1] = "alt"
       THEN {r \o Tail(tl) : r \in Head(tl)[2]}
       ELSE {tl}
\* the handler returns when nothing is left
PcAfter(rest) == IF rest = <<>> THEN "done" ELSE "run"

\* a task begins a handler
TaskCall(t, prog) ==
    /\ th[t].pc = "idle"
    /\ th' = [th EXCEPT ![t].pc = "run", ![t].op = "rpc", ![t].todo = prog]
    /\ UNCHANGED <<locks, lockFrame>>

\* the next operation of the task is read().await or write().await
TaskAcquire(t) ==
    /\ th[t].pc = "run"
    /\ LET op == Head(th[t].todo) IN
          /\ op[1] = "acq"
          /\ \E rest \in Rest(th[t].todo) :
                Acquire(t, op[2], op[3], "run", [th[t] EXCEPT !.todo = rest])
    /\ UNCHANGED lockFrame

\* guards go out of scope or are dropped
TaskRelease(t) ==
    /\ th[t].pc = "run"
    /\ LET op == Head(th[t].todo) IN
          /\ op[1] = "rel"
          /\ Release(t, op[2])
          /\ \E rest \in Rest(th[t].todo) :
                th' = [th EXCEPT ![t].todo = rest, ![t].pc = PcAfter(rest)]
    /\ UNCHANGED lockFrame

\* an await that is not on a lock completes: a runtime invocation, an event
TaskAwait(t) ==
    /\ th[t].pc = "run"
    /\ Head(th[t].todo)[1] = "await"
    /\ \E rest \in Rest(th[t].todo) :
          th' = [th EXCEPT ![t].todo = rest, ![t].pc = PcAfter(rest)]
    /\ UNCHANGED <<locks, lockFrame>>

TaskGrant(l) ==
    /\ LockGrant(l)
    /\ UNCHANGED lockFrame

\* the steps of the tasks that are under way
TaskProgress ==
    \/ \E t \in Tasks : TaskAcquire(t)
    \/ \E t \in Tasks : TaskRelease(t)
    \/ \E t \in Tasks : TaskAwait(t)
    \/ \E l \in LockNames : TaskGrant(l)

LockNext ==
    \/ \E t \in Tasks, prog \in Programs : TaskCall(t, prog)
    \/ TaskProgress

LockSpec == Init /\ [][LockNext]_vars
\* ================================================================= claims
\* a step in which set_exited runs on the registered container
SetExitedStep == now' # now
\* a step in which the RPC of the given verb arrives
Arrives(v) == calls' = calls + 1 /\ (reply'.verb = v \/ rpc'[calls'].verb = v)
\* a step in which a Kill RPC runs (it has no await: it arrives and responds)
KillStep == reply = NoRpc /\ reply'.verb = "Kill"

\* C1: the status of a container never moves backward along
\* UNKNOWN -> CREATED -> RUNNING -> STOPPED; STOPPED is terminal.
C1_StatusMonotone ==
    [][\A o \in Objs : o \notin dropped' => Rank(status'[o]) >= Rank(status[o])]_vars

C3_FanOut ==
    [][/\ SetExitedStep =>
             \A i \in DOMAIN wait_channels[registry] : chanSent'[wait_channels[registry][i]] = 1
       /\ \A o \in Objs : stopSnap'[o] # <<>> => wait_channels'[o] = <<>>]_vars

\* C4: Create checks and inserts atomically: an insert never finds another
\* container registered, so the container a Create registered is never replaced.
C4_CreateAtomic ==
    [][registry # 0 => registry' \in {0, registry}]_vars

\* C5: a Create that arrives while a container is registered under its id returns
\* AlreadyExists at once, without running the runtime and without changing the
\* registry, any container, any channel or any process.
C5_CreateConflict ==
    [][(Arrives("Create") /\ registry # 0 /\ oid[registry] \in {reply'.id, rpc'[calls'].id})
          => /\ reply'.verb = "Create" /\ reply'.res = "AlreadyExists"
             /\ rpc'[calls'] = Finished
             /\ UNCHANGED <<contVars, chanVars, proc, sigchld>>]_vars
C5_Witness ==
    /\ reply.verb = "Create" /\ reply.res = "AlreadyExists"
    /\ registry # 0 /\ oid[registry] = reply.id /\ status[registry] = RUNNING

C7_OwnPidOnly ==
    \A o \in Objs : status[o] = STOPPED =>
        /\ proc[pid[o]] = "reaped"
        /\ exit_code[o] = (IF wstat[pid[o]].kind = "Exited" THEN wstat[pid[o]].code
                           ELSE 128 + wstat[pid[o]].code)

\* C8: the dispatcher's SIGCHLD arm emits the exit status of a child that exited
\* normally, 128 + the signal number of a child a signal killed (137 for
\* SIGKILL), and nothing for any other wait status.
C8_ExitCode ==
    [][(dpc = "select" /\ dpc' # "select") =>
          LET ws == wstat[container_pid] IN
          IF proc[container_pid] = "zombie" /\ ws.kind = "Exited"
          THEN events' = Append(events, ws.code) /\ proc'[container_pid] = "reaped"
          ELSE IF proc[container_pid] = "zombie" /\ ws.kind = "Signaled"
          THEN /\ events' = Append(events, 128 + ws.code)
               /\ (ws.code = 9 => events' = Append(events, 137))
               /\ proc'[container_pid] = "reaped"
          ELSE events' = events /\ proc' = proc]_vars
\* the dispatcher has reaped a child SIGKILL killed and emitted 137
C8_Witness ==
    dpc = "done" /\ proc[container_pid] = "reaped" /\ wstat[container_pid] = Signaled(9)
       /\ events = <<137>>

\* C9: Kill with a valid signal on a registered container returns success: the
\* signal is delivered to the container's pid when that process is alive, and
\* when it has exited Kill still succeeds; no container state changes.
C9_KillSucceeds ==
    [][(KillStep /\ registry # 0 /\ oid[registry] = reply'.id /\ reply'.sig \in 1..31)
          => /\ reply'.res = "OK"
             /\ (proc[pid[registry]] = "alive" => lastKill' = <<pid[registry], reply'.sig>>)
             /\ (proc[pid[registry]] # "alive" => lastKill' = lastKill)
             /\ UNCHANGED <<contVars, chanVars, proc, wstat, readers>>]_vars
\* Kill with signal 15 on a container whose process was reaped returned success
C9_Witness ==
    /\ reply.verb = "Kill" /\ reply.res = "OK" /\ reply.sig = 15
    /\ registry # 0 /\ reply.obj = registry /\ proc[pid[registry]] = "reaped"

\* C10: Kill with a number that is no Unix signal returns InvalidArgument on a
\* registered container, Kill on an unregistered id returns NotFound whatever
\* the number, and neither sends a signal.
C10_KillRejects ==
    [][KillStep =>
          /\ (registry = 0 \/ oid[registry] # reply'.id)
                => reply'.res = "NotFound" /\ lastKill' = lastKill
          /\ (registry # 0 /\ oid[registry] = reply'.id /\ reply'.sig \notin 1..31)
                => reply'.res = "InvalidArgument" /\ lastKill' = lastKill
          /\ UNCHANGED <<contVars, chanVars, proc, wstat, readers>>]_vars
\* Kill with 32 on a registered container whose process is alive was rejected
C10_Witness ==
    /\ reply.verb = "Kill" /\ reply.res = "InvalidArgument" /\ reply.sig = 32
    /\ registry # 0 /\ oid[registry] = reply.id /\ proc[pid[registry]] = "alive"


\* C11: every Shutdown call that returns has the exit latch fired, also when the
\* runtime delete of the registered container failed; an Internal error can only
\* come from a call made after the latch was fired.
C11_ShutdownFiresLatch ==
    reply.verb = "Shutdown" => exited

\* C12: once a Shutdown RPC has returned, every Wait RPC in flight at that
\* moment eventually completes.
C12_ShutdownReleasesWaits ==
    \A s \in Slots : (reply.verb = "Shutdown" /\ rpc[s].verb = "Wait") ~> (rpc[s] = Finished)

\* C13: exit latch. A wait() that begins after a signal() returned never awaits
\* (it creates its future, reads the flag and returns); once a signal() has
\* returned no wait() is parked without having been woken and none is about to
\* park; the flag only goes from armed to fired.
C13_Latch ==
    [][/\ \A w \in Waiters :
             waiter'[w].late => waiter'[w].pc \in {"loop", "check", "returned"}
       /\ SignalReturned' =>
             \A w \in Waiters : waiter'[w].pc = "parked" => waiter'[w].woken
       /\ SignalReturned' =>
             \A w \in Waiters : waiter'[w].pc = "poll" => notify_waiters_calls' # waiter'[w].seen
       /\ exited => exited']_vars
\* a wait() that was between its load of the flag and its await when signal()
\* ran has returned, and so has one that was parked
C13_Witness ==
    /\ SignalReturned
    /\ \A w \in Waiters : waiter[w].pc = "returned" /\ ~waiter[w].late
    /\ \E w \in Waiters : waiter[w].seen = 0
    /\ \E w \in Waiters : waiter[w].seen > 0

\* C14: whatever the launcher has written to stdout is the one address
\* unix://<socket_path> of the path its listener was bound to, and while that
\* address is visible the listener is open, so a client that dials it connects;
\* when creating the socket root or binding failed the launcher exits non-zero
\* with nothing written.
C14_LauncherStdout ==
    /\ stdout # <<>> =>
          /\ stdout = <<<<"unix://", <<SOCKET_ROOT, Hash(launch_id), ".sock">>>>>>
          /\ uds \in {"launcher", "child"}
    /\ client # "refused"
    /\ lfail \in {"root", "bind"} => lcode = 1 /\ stdout = <<>>
    /\ lcode = 0 => stdout # <<>> /\ uds = "child"

\* C15: the server returns, and the daemon goes on to unlink the socket, only
\* when a Shutdown RPC has fired the latch; the socket file is removed only by
\* a daemon whose server has returned that way, and the daemon exits 0 only with
\* the latch fired and the socket file removed. Any other end is a failure exit.
C15_DaemonExit ==
    /\ daemon \in {"serving", "stopped", "exit0", "failed"}
    /\ daemon \in {"stopped", "exit0"} =>
          /\ exited
          /\ \E g \in Signalers : signaler[g] \in {"stored", "done"}
          /\ waiter[ServerWaiter].pc = "returned"
    /\ ~socket_file => daemon = "exit0"
    /\ daemon = "exit0" => ~socket_file
\* the daemon exited 0 after a Shutdown RPC that failed and one that fired the latch
C15_Witness ==
    /\ daemon = "exit0" /\ ~socket_file /\ exited
    /\ \E g \in Signalers : signaler[g] = "failed"
    /\ \E g \in Signalers : signaler[g] = "done"

\* C16: a Start that arrives for a registered container whose status is RUNNING
\* or STOPPED returns an error at once, without running the runtime and with the
\* status unchanged; a container becomes RUNNING only from CREATED.
C16_StartPrecondition ==
    [][/\ (Arrives("Start") /\ registry # 0 /\ oid[registry] \in {reply'.id, rpc'[calls'].id}
              /\ status[registry] \in {RUNNING, STOPPED})
          => /\ reply'.verb = "Start" /\ reply'.res \notin {"", "OK"}
             /\ rpc'[calls'] = Finished
             /\ status' = status
       /\ \A o \in Objs : (status[o] # RUNNING /\ status'[o] = RUNNING) => status[o] = CREATED]_vars

\* C17: when Create, Start or Delete returns Internal (the runtime failed) the
\* registry holds what it held, and the registered container has the same
\* status, pid, exit code, exit time and subscribers; a runtime invocation ends
\* in success or in Internal, nothing else.
C17_RuntimeFailure ==
    [][/\ (reply = NoRpc /\ reply'.verb \in {"Create", "Start", "Delete"} /\ reply'.res = "Internal")
          => /\ registry' = registry
             /\ registry # 0 =>
                   /\ status'[registry] = status[registry]
                   /\ pid'[registry] = pid[registry]
                   /\ exit_code'[registry] = exit_code[registry]
                   /\ exited_at'[registry] = exited_at[registry]
                   /\ wait_channels'[registry] = wait_channels[registry]
             /\ UNCHANGED <<chanMsgs, chanTx, chanSent>>
       /\ \A s \in Slots :
             (rpc[s].pc \in {"c_runtime", "s_runtime", "d_runtime"} /\ rpc'[s] = Finished)
                => reply'.res \in {"OK", "Internal"}]_vars
\* a Delete whose runtime failed left the container registered with its subscriber
C17_Witness ==
    /\ reply.verb = "Delete" /\ reply.res = "Internal"
    /\ registry # 0 /\ reply.obj = registry /\ wait_channels[registry] # <<>>

\* C18: a Start, Kill, Wait or Delete that arrives for an id that is not
\* registered (nothing registered, or a container with another id) returns
\* NotFound at once: no runtime is run, no signal sent, no subscriber enqueued,
\* no guard kept, and the registry and the containers are unchanged.
C18_NotFound ==
    [][\A v \in {"Start", "Kill", "Wait", "Delete"} :
          (Arrives(v) /\ (registry = 0 \/ oid[registry] \notin {reply'.id, rpc'[calls'].id}))
             => /\ reply'.verb = v /\ reply'.res = "NotFound"
                /\ rpc'[calls'] = Finished
                /\ UNCHANGED <<contVars, chanVars, procVars, readers, sigchld>>]_vars
\* a Start for id b was refused while the container a is registered
C18_Witness ==
    /\ reply.verb = "Start" /\ reply.res = "NotFound" /\ reply.id = "b"
    /\ registry # 0 /\ oid[registry] = "a"

\* C19: a Wait that subscribed to a container which was then removed from the
\* registry without set_exited having notified it finds its channel closed, and
\* when it returns it returns Aborted.
C19_WaitAborted ==
    /\ \A s \in Slots :
          (rpc[s].pc = "w_recv" /\ rpc[s].obj \in dropped /\ chanSent[rpc[s].chan] = 0)
             => ~chanTx[rpc[s].chan] /\ chanMsgs[rpc[s].chan] = 0
    /\ (reply.verb = "Wait" /\ reply.chan # 0 /\ reply.obj \in dropped /\ chanSent[reply.chan] = 0)
          => reply.res = "Aborted"
\* a Wait pending on a container that a Delete or a Shutdown removed returned Aborted
C19_Witness ==
    /\ reply.verb = "Wait" /\ reply.res = "Aborted"
    /\ reply.obj \in dropped /\ chanSent[reply.chan] = 0 /\ registry = 0
    /\ \E s \in Slots : rpc[s] = Finished

\* C20: when the process of the registered container has exited, the container
\* eventually is STOPPED (or is no longer the registered one), and every Wait
\* pending on it eventually returns.
C20_ExitDetected ==
    /\ \A o \in Objs :
          (registry = o /\ proc[pid[o]] \in {"zombie", "reaped"})
             ~> (status[o] = STOPPED \/ registry # o)
    /\ \A s \in Slots :
          (rpc[s].pc = "w_recv" /\ rpc[s].obj = registry /\ proc[pid[registry]] \in {"zombie", "reaped"})
             ~> (rpc[s] = Finished)

\* a step in which the dispatcher's SIGCHLD arm runs: it alone takes the pending signal
ChldHandled == sigchld /\ ~sigchld'

\* C21: the signal dispatcher never terminates: whatever signal it has handled,
\* and whatever the reap call or the delivery of the event returned, it is back
\* at its select, waiting for the next signal.
C21_DispatcherRuns == dpc = "select"

\* C22: when the SIGCHLD handler has run, no child that had terminated before
\* it started is left unreaped, and it has emitted one event per child it reaped.
C22_ReapAll ==
    [][ChldHandled =>
          /\ \A p \in Pids : proc[p] = "zombie" => proc'[p] = "reaped"
          /\ Len(events') - Len(events)
                = Cardinality({p \in Pids : proc[p] # "reaped" /\ proc'[p] = "reaped"})]_vars

\* C23: a container whose status is STOPPED has no wait subscriber enqueued,
\* whatever the interleaving of wait_channel and set_exited on it.
C23_StoppedQueueEmpty == \A o \in Objs : status[o] = STOPPED => wait_channels[o] = <<>>
\* set_exited notified a subscriber, and a wait_channel that came after it did not enqueue
C23_Witness ==
    /\ status[Unit] = STOPPED /\ wait_channels[Unit] = <<>>
    /\ \E c \in Chans : chanSent[c] = 1
    /\ \E t \in Callers : th[t].op = "wait_channel" /\ th[t].pc = "holding" /\ ~th[t].enq

\* C24: the receiver wait_channel returns for a STOPPED container (nothing was
\* enqueued for it) is already satisfied: a notification is waiting in it.
C24_SatisfiedHandle ==
    \A t \in Callers :
       (th[t].op = "wait_channel" /\ th[t].pc = "holding" /\ ~th[t].enq)
          => chanMsgs[th[t].chan] > 0

\* C26: a subscriber whose receiver was dropped does not disturb set_exited: it
\* sets STOPPED, empties the queue, and every other enqueued subscriber gets its
\* notification, exactly one; nothing is delivered to the dropped one.
C26_CancelledWait ==
    [][SetExitedStep =>
          /\ status'[Unit] = STOPPED
          /\ wait_channels'[Unit] = <<>>
          /\ \A c \in Range(wait_channels[Unit]) \ RxDropped :
                chanSent'[c] = 1 /\ chanMsgs'[c] = chanMsgs[c] + 1
          /\ \A c \in RxDropped : chanSent'[c] = chanSent[c] /\ chanMsgs'[c] = chanMsgs[c]]_vars
\* a subscriber enqueued after a cancelled one received the notification
C26_Witness ==
    /\ status[Unit] = STOPPED
    /\ \E t, u \in Callers :
          /\ th[t].enq /\ th[t].rx = "dropped" /\ chanSent[th[t].chan] = 0
          /\ th[u].enq /\ th[u].rx = "notified" /\ chanSent[th[u].chan] = 1
          /\ th[t].chan < th[u].chan

\* C25: a container whose status is CREATED, RUNNING or STOPPED has a pid other
\* than 0; every registered container has such a status; the pid a Create
\* returns is not 0.
C25_PidWithStatus ==
    /\ \A o \in Objs : status[o] \in {CREATED, RUNNING, STOPPED} => pid[o] # 0
    /\ registry # 0 => status[registry] \in {CREATED, RUNNING, STOPPED}
    /\ (reply.verb = "Create" /\ reply.res = "OK") => reply.val # <<0>>
\* a Create returned the pid of the container it registered while another
\* container, not yet created by the runtime, has no pid
C25_Witness ==
    /\ reply.verb = "Create" /\ reply.res = "OK" /\ reply.val = <<pid[registry]>>
    /\ registry # 0 /\ status[registry] = CREATED
    /\ \E s \in Slots : rpc[s].pc = "c_runtime" /\ status[rpc[s].obj] = UNKNOWN /\ pid[rpc[s].obj] = 0

\* a step of the Delete RPC in slot s
DeleteStep(s) == (rpc[s].verb = "Delete" /\ rpc'[s] # rpc[s]) \/ (Arrives("Delete") /\ s = calls')

\* C27: when a Delete returns success nothing is registered and the container
\* it deleted is gone; while nothing is registered, Start, Kill, Wait and Delete
\* return NotFound and a Create is accepted; no step of a Delete changes the
\* status of a container.
C27_DeleteUnregisters ==
    [][/\ (reply = NoRpc /\ reply'.verb = "Delete" /\ reply'.res = "OK")
             => /\ registry' = 0
                /\ reply'.obj \in dropped'
                /\ \A i \in Ids : Lookup(i)' = 0
                /\ ~CreateConflict'
       /\ \A v \in {"Start", "Kill", "Wait", "Delete"} :
             (registry = 0 /\ Arrives(v)) => (reply'.verb = v /\ reply'.res = "NotFound")
       /\ (registry = 0 /\ Arrives("Create")) => rpc'[calls'].pc = "c_runtime"
       /\ \A s \in Slots :
             DeleteStep(s) => \A o \in Objs \ dropped' : status'[o] = status[o]]_vars
\* a Delete returned success for the registered container, which was STOPPED
C27_Witness ==
    /\ reply.verb = "Delete" /\ reply.res = "OK" /\ reply.id = "a"
    /\ reply.obj2 = reply.obj /\ reply.obj \in dropped
    /\ registry = 0 /\ reply.val # <<0>>

\* C28: the container a Delete or a Shutdown takes out of the registry is the
\* one it looked up and ran the runtime's delete for (none, for a Shutdown that
\* found the registry empty).
C28_TakesOwnContainer ==
    (reply.verb \in {"Delete", "Shutdown"} /\ reply.res = "OK") => reply.obj2 = reply.obj

\* the order in which the locks are taken
LockRank(l) == CASE l = "registry" -> 0 [] l = "pid" -> 1 [] l = "status" -> 2
                 [] l = "exit_code" -> 3 [] l = "exited_at" -> 4 [] l = "wait_channels" -> 5
\* the locks task t holds
HeldBy(t) == {l \in LockNames : locks[l].w = t \/ t \in locks[l].r}

\* C29: the tasks never block on each other's locks for good: while a task waits
\* for a lock, some task under way can take a step; and a task that waits for a
\* lock holds only locks that come before it in the one order registry, pid,
\* status, exit_code, exited_at, wait_channels.
C29_NoLockDeadlock ==
    /\ (\E t \in Tasks : th[t].pc = "blocked") => ENABLED TaskProgress
    /\ \A l \in LockNames : \A i \in DOMAIN locks[l].q :
          \A h \in HeldBy(locks[l].q[i][1]) : LockRank(h) < LockRank(l)
\* a task waits for the registry write lock while another, which holds the
\* registry shared, holds the status guard and the wait_channels guard inside it
C29_Witness ==
    \E t, u \in Tasks :
       /\ th[t].pc = "blocked"
       /\ locks["registry"].q # <<>>
       /\ locks["registry"].q[1][1] = t /\ locks["registry"].q[1][2] = "w"
       /\ HeldBy(u) = {"registry", "status", "wait_channels"}

====
